---- MODULE Spec2Model ----
(***************************************************************************)
(* Model of app_dirs' common.rs: the AppInfo capability with its two       *)
(* implementations, the AppDataType enumeration with is_shared, and the    *)
(* AppDirsError type with its Display, Error and From<io::Error> impls.    *)
(*                                                                         *)
(* Text that the library only passes through (app names and authors) is a  *)
(* sequence of characters; text that is rendered (error messages) is a     *)
(* TLA+ string.                                                            *)
(***************************************************************************)
EXTENDS Naturals, Sequences, FiniteSets, TLC

VARIABLES info, err, seen, ret

vars == <<info, err, seen, ret>>

----------------------------------------------------------------------------
(* Bounds and input domains *)

\* longest app name / author the model constructs
MaxLen == 1

\* characters app names are built from: an upper-case letter, a space
\* (trimmable) and a path separator (not filename-safe)
Alphabet == {"A", " ", "/"}

RECURSIVE SeqsUpTo(_)
SeqsUpTo(n) ==
    IF n = 0 THEN {<<>>}
    ELSE LET shorter == SeqsUpTo(n - 1)
         IN  shorter \cup {Append(s, c) : s \in {t \in shorter : Len(t) = n - 1}, c \in Alphabet}

Strings == SeqsUpTo(MaxLen)

Option_None == [some |-> FALSE]
Option_Some(x) == [some |-> TRUE, val |-> x]

----------------------------------------------------------------------------
(* AppInfo: StaticAppInfo, OwningAppInfo and their accessors *)

StaticAppInfo(n, a) == [variant |-> "StaticAppInfo", name |-> n, author |-> a]

OwningAppInfo(n, a) == [variant |-> "OwningAppInfo", name |-> n, author |-> a]

AppInfos ==
    {StaticAppInfo(n, a) : n \in Strings, a \in Strings}
        \cup {OwningAppInfo(n, a) : n \in Strings, a \in Strings}

\* name() that strips the characters that are not filename-safe
name_sanitized(self) == SelectSeq(self.name, LAMBDA c : c # "/")

\* <StaticAppInfo as AppInfo>::name returns self.name,
\* <OwningAppInfo as AppInfo>::name returns &self.name
name(self) ==
    CASE self.variant = "StaticAppInfo" -> self.name
      [] self.variant = "OwningAppInfo" -> self.name

author(self) ==
    CASE self.variant = "StaticAppInfo" -> self.author
      [] self.variant = "OwningAppInfo" -> self.author

\* equality that looks at the name only
eq_name_only(self, other) == self.name = other.name

\* #[derive(PartialEq, Eq)]: field by field, name first, then author.
\* Both operands have the same type.
eq(self, other) ==
    CASE self.variant = "StaticAppInfo" -> self.name = other.name /\ self.author = other.author
      [] self.variant = "OwningAppInfo" -> self.name = other.name /\ self.author = other.author

\* str::as_bytes: the UTF-8 encoding of the text
as_bytes(s) ==
    [i \in 1..Len(s) |->
        CASE s[i] = "A" -> 65
          [] s[i] = " " -> 32
          [] s[i] = "/" -> 47]

\* <str as Hash>::hash: the bytes, then the terminator 0xff
str_hash(s, state) == state \o as_bytes(s) \o <<255>>

\* #[derive(Hash)]: feeds the hasher each field in declaration order.
\* A hasher is modelled by the bytes written to it so far.
hash(self, state) ==
    CASE self.variant = "StaticAppInfo" -> str_hash(self.author, str_hash(self.name, state))
      [] self.variant = "OwningAppInfo" -> str_hash(self.author, str_hash(self.name, state))

\* #[derive(Clone)]
clone(self) ==
    CASE self.variant = "StaticAppInfo" -> StaticAppInfo(self.name, self.author)
      [] self.variant = "OwningAppInfo" -> OwningAppInfo(self.name, self.author)

----------------------------------------------------------------------------
(* AppDataType *)

AppDataType == {"UserConfig", "UserData", "UserCache", "SharedData", "SharedConfig"}

\* is_shared that forgets SharedConfig
is_shared_only_data(self) == self = "SharedData"

is_shared(self) ==
    CASE self \in {"SharedData", "SharedConfig"} -> TRUE
      [] OTHER -> FALSE

----------------------------------------------------------------------------
(* std::io::Error, the payload of AppDirsError::Io.  Its three              *)
(* representations are an OS error code, a bare ErrorKind, and a custom     *)
(* error built by io::Error::new(kind, message).                            *)

ErrorKind == {"NotFound", "PermissionDenied", "Other"}

OsCodes == {2, 13}

Messages == {"disk full", "quota exceeded"}

io_Os(code) == [repr |-> "Os", code |-> code]
io_Simple(kind) == [repr |-> "Simple", kind |-> kind]
io_Custom(kind, msg) == [repr |-> "Custom", kind |-> kind, error |-> msg]

IoErrors ==
    {io_Os(c) : c \in OsCodes}
        \cup {io_Simple(k) : k \in ErrorKind}
        \cup {io_Custom(k, m) : k \in ErrorKind, m \in Messages}

\* sys::os::error_string: strerror of the code
error_string(code) ==
    CASE code = 2 -> "No such file or directory"
      [] code = 13 -> "Permission denied"

\* sys::decode_error_kind
decode_error_kind(code) ==
    CASE code = 2 -> "NotFound"
      [] code = 13 -> "PermissionDenied"

\* ErrorKind::as_str
as_str(kind) ==
    CASE kind = "NotFound" -> "entity not found"
      [] kind = "PermissionDenied" -> "permission denied"
      [] kind = "Other" -> "other os error"

\* io::Error::kind
io_kind(e) ==
    CASE e.repr = "Os" -> decode_error_kind(e.code)
      [] e.repr = "Simple" -> e.kind
      [] e.repr = "Custom" -> e.kind

\* <io::Error as Display>::fmt, appending to the formatter's buffer f
io_fmt(e, f) ==
    CASE e.repr = "Os" -> f \o error_string(e.code) \o " (os error " \o ToString(e.code) \o ")"
      [] e.repr = "Custom" -> f \o e.error
      [] e.repr = "Simple" -> f \o as_str(e.kind)

\* <io::Error as Error>::description
io_description(e) ==
    CASE e.repr \in {"Os", "Simple"} -> as_str(io_kind(e))
      [] e.repr = "Custom" -> e.error

----------------------------------------------------------------------------
(* AppDirsError *)

ERR_NOT_SUPPORTED == "App data directories not supported"
\* the message with a trailing full stop
ERR_INVALID_APP_INFO_stop == "Invalid app name or author."
ERR_INVALID_APP_INFO == "Invalid app name or author"

Io(e) == [tag |-> "Io", e |-> e]
NotSupported == [tag |-> "NotSupported"]
InvalidAppInfo == [tag |-> "InvalidAppInfo"]

AppDirsError == {Io(e) : e \in IoErrors} \cup {NotSupported, InvalidAppInfo}

\* Display that prefixes the wrapped I/O error's text
fmt_decorated(self, f) ==
    CASE self.tag = "Io" -> io_fmt(self.e, f \o "I/O error: ")
      [] self.tag = "NotSupported" -> f \o ERR_NOT_SUPPORTED
      [] self.tag = "InvalidAppInfo" -> f \o ERR_INVALID_APP_INFO

\* Display with the two fixed messages exchanged
fmt_swapped(self, f) ==
    CASE self.tag = "Io" -> io_fmt(self.e, f)
      [] self.tag = "NotSupported" -> f \o ERR_INVALID_APP_INFO
      [] self.tag = "InvalidAppInfo" -> f \o ERR_NOT_SUPPORTED

\* <AppDirsError as Display>::fmt, appending to the formatter's buffer f
fmt(self, f) ==
    CASE self.tag = "Io" -> io_fmt(self.e, f)
      [] self.tag = "NotSupported" -> f \o ERR_NOT_SUPPORTED
      [] self.tag = "InvalidAppInfo" -> f \o ERR_INVALID_APP_INFO

\* description() whose NotSupported literal drifted from ERR_NOT_SUPPORTED
description_drifted(self) ==
    CASE self.tag = "Io" -> io_description(self.e)
      [] self.tag = "NotSupported" -> "App directories not supported"
      [] self.tag = "InvalidAppInfo" -> "Invalid app name or author"

\* <AppDirsError as Error>::description
description(self) ==
    CASE self.tag = "Io" -> io_description(self.e)
      [] self.tag = "NotSupported" -> "App data directories not supported"
      [] self.tag = "InvalidAppInfo" -> "Invalid app name or author"

\* cause() that never reports one
cause_none(self) == Option_None

\* <AppDirsError as Error>::cause
cause(self) ==
    CASE self.tag = "Io" -> Option_Some(self.e)
      [] self.tag = "NotSupported" -> Option_None
      [] self.tag = "InvalidAppInfo" -> Option_None

\* <AppDirsError as From<io::Error>>::from
from(e) == Io(e)

----------------------------------------------------------------------------
(* State machine *)

\* info: the AppInfo value in hand; err: the AppDirsError value in hand;
\* seen: what has been read off err since it was built, oldest first;
\* ret: the last call, its receiver, its argument and what it returned.

\* longest record of reads kept for one error value
MaxObs == 3

NoInfo == [variant |-> "none"]
NoError == [tag |-> "none"]
NoCall == [op |-> "none", self |-> "none", arg |-> "none", val |-> "none"]

InfoInit ==
    /\ info \in AppInfos
    /\ err = NoError
    /\ seen = <<>>
    /\ ret = NoCall

ConstructStatic(n, a) ==
    /\ info' = StaticAppInfo(n, a)
    /\ ret' = [op |-> "StaticAppInfo", self |-> "none", arg |-> <<n, a>>, val |-> StaticAppInfo(n, a)]
    /\ UNCHANGED <<err, seen>>

ConstructOwning(n, a) ==
    /\ info' = OwningAppInfo(n, a)
    /\ ret' = [op |-> "OwningAppInfo", self |-> "none", arg |-> <<n, a>>, val |-> OwningAppInfo(n, a)]
    /\ UNCHANGED <<err, seen>>

\* name() that rejects an empty name with InvalidAppInfo
CallName_validating ==
    /\ err' = IF info.name = <<>> THEN InvalidAppInfo ELSE err
    /\ ret' = [op |-> "name", self |-> info, arg |-> "none", val |-> name(info)]
    /\ UNCHANGED <<info, seen>>

CallName ==
    /\ ret' = [op |-> "name", self |-> info, arg |-> "none", val |-> name(info)]
    /\ UNCHANGED <<info, err, seen>>

CallAuthor ==
    /\ ret' = [op |-> "author", self |-> info, arg |-> "none", val |-> author(info)]
    /\ UNCHANGED <<info, err, seen>>

\* info == other, for another value of the same type
CallEq(other) ==
    /\ other.variant = info.variant
    /\ ret' = [op |-> "eq", self |-> info, arg |-> other, val |-> eq(info, other)]
    /\ UNCHANGED <<info, err, seen>>

\* info.hash(&mut hasher) on a fresh hasher
CallHash ==
    /\ ret' = [op |-> "hash", self |-> info, arg |-> <<>>, val |-> hash(info, <<>>)]
    /\ UNCHANGED <<info, err, seen>>

CallClone ==
    /\ ret' = [op |-> "clone", self |-> info, arg |-> "none", val |-> clone(info)]
    /\ UNCHANGED <<info, err, seen>>

InfoNext ==
    \/ \E n \in Strings, a \in Strings : ConstructStatic(n, a)
    \/ \E n \in Strings, a \in Strings : ConstructOwning(n, a)
    \/ CallName
    \/ CallAuthor
    \/ \E other \in AppInfos : CallEq(other)
    \/ CallHash
    \/ CallClone

InfoSpec == InfoInit /\ [][InfoNext]_vars

Init ==
    /\ info = NoInfo
    /\ err \in AppDirsError
    /\ seen = <<>>
    /\ ret = NoCall

ConstructIo(e) ==
    /\ err' = Io(e)
    /\ seen' = <<>>
    /\ ret' = [op |-> "Io", self |-> "none", arg |-> e, val |-> Io(e)]
    /\ UNCHANGED info

ConstructNotSupported ==
    /\ err' = NotSupported
    /\ seen' = <<>>
    /\ ret' = [op |-> "NotSupported", self |-> "none", arg |-> "none", val |-> NotSupported]
    /\ UNCHANGED info

ConstructInvalidAppInfo ==
    /\ err' = InvalidAppInfo
    /\ seen' = <<>>
    /\ ret' = [op |-> "InvalidAppInfo", self |-> "none", arg |-> "none", val |-> InvalidAppInfo]
    /\ UNCHANGED info

\* AppDirsError::from(e), the conversion `?` and try! apply
CallFrom(e) ==
    /\ err' = from(e)
    /\ seen' = <<>>
    /\ ret' = [op |-> "from", self |-> "none", arg |-> e, val |-> from(e)]
    /\ UNCHANGED info

\* rendering that takes the wrapped I/O error out of the value
CallFmt_taking ==
    /\ Len(seen) < MaxObs
    /\ ret' = [op |-> "fmt", self |-> err, arg |-> "", val |-> fmt(err, "")]
    /\ seen' = Append(seen, [op |-> "fmt", val |-> fmt(err, "")])
    /\ err' = IF err.tag = "Io" THEN NotSupported ELSE err
    /\ UNCHANGED info

\* format!("{}", err): fmt on an empty formatter
CallFmt ==
    /\ Len(seen) < MaxObs
    /\ ret' = [op |-> "fmt", self |-> err, arg |-> "", val |-> fmt(err, "")]
    /\ seen' = Append(seen, [op |-> "fmt", val |-> fmt(err, "")])
    /\ UNCHANGED <<info, err>>

CallDescription ==
    /\ Len(seen) < MaxObs
    /\ ret' = [op |-> "description", self |-> err, arg |-> "none", val |-> description(err)]
    /\ seen' = Append(seen, [op |-> "description", val |-> description(err)])
    /\ UNCHANGED <<info, err>>

CallCause ==
    /\ Len(seen) < MaxObs
    /\ ret' = [op |-> "cause", self |-> err, arg |-> "none", val |-> cause(err)]
    /\ seen' = Append(seen, [op |-> "cause", val |-> cause(err)])
    /\ UNCHANGED <<info, err>>

CallIsShared(t) ==
    /\ ret' = [op |-> "is_shared", self |-> t, arg |-> "none", val |-> is_shared(t)]
    /\ UNCHANGED <<info, err, seen>>

Next ==
    \/ \E e \in IoErrors : ConstructIo(e)
    \/ ConstructNotSupported
    \/ ConstructInvalidAppInfo
    \/ \E e \in IoErrors : CallFrom(e)
    \/ CallFmt
    \/ CallDescription
    \/ CallCause
    \/ \E t \in AppDataType : CallIsShared(t)

Spec == Init /\ [][Next]_vars

----------------------------------------------------------------------------
(* Properties *)

ObsOps == {"fmt", "description", "cause"}

\* C1: is_shared() is defined on all five AppDataType variants and returns
\* true exactly for SharedData and SharedConfig, false for UserConfig,
\* UserData and UserCache.
C1_IsSharedExactlySharedVariants ==
    /\ \A t \in AppDataType : is_shared(t) \in BOOLEAN
    /\ ret.op = "is_shared" =>
        /\ ret.self = "UserConfig" => ret.val = FALSE
        /\ ret.self = "UserData" => ret.val = FALSE
        /\ ret.self = "UserCache" => ret.val = FALSE
        /\ ret.self = "SharedData" => ret.val = TRUE
        /\ ret.self = "SharedConfig" => ret.val = TRUE

C1_Witness == ret.op = "is_shared" /\ ret.self = "SharedConfig" /\ ret.val = TRUE

\* C2: from(e) yields the Io variant holding e; its Display rendering is the
\* Display rendering of e, nothing added or removed, and its cause is Some(e).
C2_FromYieldsIoWrappingE ==
    ret.op = "from" =>
        /\ ret.val.tag = "Io"
        /\ err = ret.val
        /\ fmt(ret.val, "") = io_fmt(ret.arg, "")
        /\ cause(ret.val) = Option_Some(ret.arg)

C2_Witness == ret.op = "from" /\ ret.arg = io_Os(2) /\ err = Io(io_Os(2))

\* C3: NotSupported renders to exactly "App data directories not supported"
\* and has no cause.
C3_NotSupportedMessageNoCause ==
    err = NotSupported =>
        \A i \in DOMAIN seen :
            /\ seen[i].op = "fmt" => seen[i].val = "App data directories not supported"
            /\ seen[i].op = "cause" => seen[i].val = Option_None

C3_Witness ==
    /\ err = NotSupported
    /\ \E i, j \in DOMAIN seen : seen[i].op = "fmt" /\ seen[j].op = "cause"

\* C4: InvalidAppInfo renders to exactly "Invalid app name or author" and has
\* no cause.
C4_InvalidAppInfoMessageNoCause ==
    err = InvalidAppInfo =>
        \A i \in DOMAIN seen :
            /\ seen[i].op = "fmt" => seen[i].val = "Invalid app name or author"
            /\ seen[i].op = "cause" => seen[i].val = Option_None

C4_Witness ==
    /\ err = InvalidAppInfo
    /\ \E i, j \in DOMAIN seen : seen[i].op = "cause" /\ seen[j].op = "fmt"

\* C5: for both AppInfo implementations, a value built from (n, a) holds n
\* and a, name() returns exactly the name and author() exactly the author,
\* untransformed and not exchanged.
C5_AccessorsReturnFieldsVerbatim ==
    /\ ret.op \in {"StaticAppInfo", "OwningAppInfo"} =>
        /\ info = ret.val
        /\ info.variant = ret.op
        /\ name(info) = ret.arg[1]
        /\ author(info) = ret.arg[2]
    /\ ret.op = "name" => ret.self = info /\ ret.val = info.name
    /\ ret.op = "author" => ret.self = info /\ ret.val = info.author

C5_Witness ==
    /\ ret.op = "name"
    /\ info.name = <<"/">>
    /\ info.author = <<" ">>
    /\ ret.val = <<"/">>

\* C6: two AppInfo values of the same type are equal iff their names are
\* equal and their authors are equal, and equal values feed a hasher the
\* same bytes.
C6_EqualityIsStructural ==
    ret.op = "eq" =>
        /\ ret.val <=> (ret.self.name = ret.arg.name /\ ret.self.author = ret.arg.author)
        /\ ret.val => hash(ret.self, <<>>) = hash(ret.arg, <<>>)

C6_Witness ==
    /\ ret.op = "eq"
    /\ ret.self.variant = "OwningAppInfo"
    /\ ret.self.name = ret.arg.name
    /\ ret.self.author # ret.arg.author
    /\ ret.val = FALSE

\* C7: cause() is Some exactly for the Io variant, and then it is the wrapped
\* I/O error; NotSupported and InvalidAppInfo have cause None.
C7_CauseIffIo ==
    \A i \in DOMAIN seen :
        seen[i].op = "cause" =>
            /\ seen[i].val.some <=> err.tag = "Io"
            /\ err.tag = "Io" => seen[i].val = Option_Some(err.e)
            /\ err.tag \in {"NotSupported", "InvalidAppInfo"} => seen[i].val = Option_None

C7_Witness ==
    /\ err = Io(io_Custom("Other", "disk full"))
    /\ ret.op = "cause"
    /\ ret.val = Option_Some(io_Custom("Other", "disk full"))

\* C8: AppInfo fields are never validated: a value with an empty name or
\* author is built as given, name() and author() return the empty text for
\* it, and no AppInfo operation produces an AppDirsError.
C8_NoValidationOfAppInfo ==
    /\ err = NoError
    /\ ret.op \in {"StaticAppInfo", "OwningAppInfo"} => info = ret.val
    /\ ret.op = "name" => ret.val \in Strings /\ (info.name = <<>> => ret.val = <<>>)
    /\ ret.op = "author" => ret.val \in Strings /\ (info.author = <<>> => ret.val = <<>>)

C8_Witness ==
    /\ ret.op = "name"
    /\ info = OwningAppInfo(<<>>, <<>>)
    /\ ret.val = <<>>
    /\ err = NoError

\* C9: reading an error value (Display, description(), cause()) never changes
\* it, and a repeated read returns what the first one returned.
C9_ReadsLeaveErrorUnchanged ==
    /\ ret.op \in ObsOps => err = ret.self
    /\ \A i, j \in DOMAIN seen : seen[i].op = seen[j].op => seen[i].val = seen[j].val

C9_Witness ==
    /\ err.tag = "Io"
    /\ Len(seen) = 3
    /\ seen[1].op = "fmt"
    /\ seen[2].op = "cause"
    /\ seen[3].op = "fmt"

\* C10 as stated: for every AppDirsError value, description() returns the
\* same text as the Display rendering.
C10_DescriptionEqualsDisplay ==
    \A i, j \in DOMAIN seen :
        seen[i].op = "description" /\ seen[j].op = "fmt" => seen[i].val = seen[j].val

\* C10 amended: description() returns the Display text for NotSupported and
\* InvalidAppInfo; for Io, description() is the wrapped error's description()
\* and Display is the wrapped error's Display, and the two texts differ when
\* the wrapped error is an OS error.
C10_DescriptionFollowsWrappedError ==
    \A i, j \in DOMAIN seen :
        seen[i].op = "description" /\ seen[j].op = "fmt" =>
            /\ err.tag \in {"NotSupported", "InvalidAppInfo"} => seen[i].val = seen[j].val
            /\ err.tag = "Io" =>
                /\ seen[i].val = io_description(err.e)
                /\ seen[j].val = io_fmt(err.e, "")
                /\ err.e.repr = "Os" => seen[i].val # seen[j].val

C10_Witness ==
    /\ err = Io(io_Os(2))
    /\ Len(seen) = 2
    /\ seen[1] = [op |-> "fmt", val |-> "No such file or directory (os error 2)"]
    /\ seen[2] = [op |-> "description", val |-> "entity not found"]

====
